---------------------------- MODULE Spec2Model ----------------------------
(***************************************************************************)
(* msh: an interactive shell that keeps a registry of directories and      *)
(* broadcasts an external command to every registered directory.           *)
(*                                                                         *)
(* A line is a sequence of one-character strings (the bytes of the line).  *)
(* A token and a path are sequences of characters too.  The filesystem is  *)
(* a small tree: the root and two sub-directories.                         *)
(***************************************************************************)
EXTENDS Integers, Sequences, FiniteSets, TLC

(***************************************************************************)
(* Characters with a meaning for the lexer.                                *)
(***************************************************************************)
SP == " "
TAB == "\t"
BS == "\\"
DQ == "\""
SQ == "'"
DOLLAR == "$"
TILDE == "~"
DASH == "-"
SLASH == "/"

IsBlank(b) == b \in {SP, TAB}

\* The two bytes of the UTF-8 encoding of U+00E9, a character outside ASCII.
E_ACUTE == <<"0xC3", "0xA9">>

\* buf.push(b as char): the u8 becomes the char of that code point, which
\* String::push encodes in UTF-8: one byte below 0x80, two bytes from 0x80 on.
as_char(b) ==
    CASE b = "0xC3" -> <<"0xC3", "0x83">>
      [] b = "0xA9" -> <<"0xC2", "0xA9">>
      [] OTHER -> <<b>>

\* parser.rs:248  b'a'...b'z' | b'A'...b'Z' | b'_' | b'0'...b'9'
NameChars ==
    {"a", "b", "c", "d", "e", "f", "g", "h", "i", "j", "k", "l", "m", "n", "o",
     "p", "q", "r", "s", "t", "u", "v", "w", "x", "y", "z",
     "A", "B", "C", "D", "E", "F", "G", "H", "I", "J", "K", "L", "M", "N", "O",
     "P", "Q", "R", "S", "T", "U", "V", "W", "X", "Y", "Z",
     "0", "1", "2", "3", "4", "5", "6", "7", "8", "9", "_"}

(***************************************************************************)
(* Sequence helpers (str slices, join).                                    *)
(***************************************************************************)
Slice(s, i, j) == IF i > j THEN <<>> ELSE SubSeq(s, i, j)

\* str::ends_with('\\')
ends_with_backslash(line) == Len(line) > 0 /\ line[Len(line)] = BS

\* str::trim().is_empty(): of the bytes of the model only space and tab are
\* white space.
trim_is_empty(line) == \A i \in 1..Len(line) : IsBlank(line[i])

(***************************************************************************)
(* The environment of the process: the home directory, read once, and the  *)
(* tree of directories.  A directory is its canonical absolute path.       *)
(***************************************************************************)
Root == <<"/">>
DirA == <<"/", "a">>
DirB == <<"/", "b">>
Dirs == {Root, DirA, DirB}

\* context.rs:149  get_home_dir()
get_home_dir == DirA

(***************************************************************************)
(* The lexer: parser.rs arg, double_quoted, single_quoted.  A position is  *)
(* the index of the next byte the peekable iterator yields; a position     *)
(* past Len(line) is the exhausted iterator.  0 stands for Err.            *)
(***************************************************************************)
RECURSIVE double_quoted(_, _)
double_quoted(line, i) ==
    IF i > Len(line) THEN 0
    ELSE IF line[i] = DQ THEN i + 1
    ELSE IF line[i] = BS THEN double_quoted(line, i + 2)
    ELSE double_quoted(line, i + 1)

RECURSIVE single_quoted(_, _)
single_quoted(line, i) ==
    IF i > Len(line) THEN 0
    ELSE IF line[i] = SQ THEN i + 1
    ELSE single_quoted(line, i + 1)

RECURSIVE skip_blank(_, _)
skip_blank(line, i) ==
    IF i <= Len(line) /\ IsBlank(line[i]) THEN skip_blank(line, i + 1) ELSE i

\* Faulty variant of arg_scan: a backslash does not skip the byte after it.
RECURSIVE arg_scan_without_escape(_, _)
arg_scan_without_escape(line, i) ==
    IF i > Len(line) THEN [err |-> "", end |-> 0, it |-> i]
    ELSE IF line[i] = DQ THEN
        LET j == double_quoted(line, i + 1)
        IN  IF j = 0 THEN [err |-> "Unterminated double quote", end |-> 0, it |-> i]
            ELSE arg_scan_without_escape(line, j)
    ELSE IF line[i] = SQ THEN
        LET j == single_quoted(line, i + 1)
        IN  IF j = 0 THEN [err |-> "Unterminated single quote", end |-> 0, it |-> i]
            ELSE arg_scan_without_escape(line, j)
    ELSE IF IsBlank(line[i]) THEN [err |-> "", end |-> i, it |-> i]
    ELSE arg_scan_without_escape(line, i + 1)

\* The second loop of arg: err, the end index (0 for None) and the iterator.
RECURSIVE arg_scan(_, _)
arg_scan(line, i) ==
    IF i > Len(line) THEN [err |-> "", end |-> 0, it |-> i]
    ELSE IF line[i] = DQ THEN
        LET j == double_quoted(line, i + 1)
        IN  IF j = 0 THEN [err |-> "Unterminated double quote", end |-> 0, it |-> i]
            ELSE arg_scan(line, j)
    ELSE IF line[i] = SQ THEN
        LET j == single_quoted(line, i + 1)
        IN  IF j = 0 THEN [err |-> "Unterminated single quote", end |-> 0, it |-> i]
            ELSE arg_scan(line, j)
    ELSE IF line[i] = BS THEN arg_scan(line, i + 2)
    ELSE IF IsBlank(line[i]) THEN [err |-> "", end |-> i, it |-> i]
    ELSE arg_scan(line, i + 1)

\* The match (start, end) that ends arg: [err, some (a token was cut), from,
\* to (the slice), it].  start = 0 and r.end = 0 stand for None.
arg_match(line, start, r) ==
    IF r.err # "" THEN [err |-> r.err, some |-> FALSE, from |-> 0, to |-> 0, it |-> r.it]
    ELSE IF start # 0 /\ r.end # 0 /\ start < r.end
        THEN [err |-> "", some |-> TRUE, from |-> start, to |-> r.end - 1, it |-> r.it]
    ELSE IF start # 0 /\ r.end = 0
        THEN [err |-> "", some |-> TRUE, from |-> start, to |-> Len(line), it |-> r.it]
    ELSE [err |-> "", some |-> FALSE, from |-> 0, to |-> 0, it |-> r.it]

\* arg after its first loop has skipped the leading blanks.
arg_from(line, i0) ==
    arg_match(line, IF i0 <= Len(line) THEN i0 ELSE 0, arg_scan(line, i0))

arg(line, i) == arg_from(line, skip_blank(line, i))

\* The while loop of expand_line: the raw slices, as (from, to) pairs.
RECURSIVE raw_slices(_, _, _)
RECURSIVE push_arg(_, _, _)
push_arg(line, acc, a) ==
    IF a.err # "" THEN [err |-> a.err, slices |-> acc]
    ELSE raw_slices(line, a.it, IF a.some THEN Append(acc, <<a.from, a.to>>) ELSE acc)

raw_slices(line, i, acc) ==
    IF i > Len(line) THEN [err |-> "", slices |-> acc]
    ELSE IF IsBlank(line[i]) THEN raw_slices(line, i + 1, acc)
    ELSE push_arg(line, acc, arg(line, i))

cut_slices(line, r) ==
    [err |-> r.err,
     toks |-> [k \in 1..Len(r.slices) |-> Slice(line, r.slices[k][1], r.slices[k][2])]]

\* The args of expand_line before expansion: [err, toks].
raw_tokens(line) == cut_slices(line, raw_slices(line, 1, <<>>))

(***************************************************************************)
(* Expansion: parser.rs expand_var.  env maps the names that are set to    *)
(* their values.  The result is [panic, out]: the unreachable!() of        *)
(* line 240 is a panic.                                                    *)
(***************************************************************************)
RECURSIVE var_name_end(_, _)
var_name_end(s, i) ==
    IF i <= Len(s) /\ s[i] \in NameChars THEN var_name_end(s, i + 1) ELSE i

\* std::env::var(name).unwrap_or_else(|_| format!("${}", name))
env_var_or_literal(env, name) ==
    IF name \in DOMAIN env THEN env[name] ELSE <<DOLLAR>> \o name

RECURSIVE expand_from(_, _, _, _)
expand_from(s, i, env, buf) ==
    IF i > Len(s) THEN [panic |-> FALSE, out |-> buf]
    ELSE IF s[i] = BS THEN
        IF i + 1 > Len(s) THEN [panic |-> TRUE, out |-> buf]
        ELSE expand_from(s, i + 2, env, buf \o as_char(s[i + 1]))
    ELSE IF s[i] = DOLLAR THEN
        LET e == var_name_end(s, i + 1)
        IN  expand_from(s, e, env, buf \o env_var_or_literal(env, Slice(s, i + 1, e - 1)))
    ELSE IF s[i] = TILDE THEN expand_from(s, i + 1, env, buf \o get_home_dir)
    ELSE expand_from(s, i + 1, env, buf \o as_char(s[i]))

\* Faulty variant of expand_var: a token that starts with ' is expanded too.
expand_var_in_single_quotes(s, env) == expand_from(s, 1, env, <<>>)

expand_var(s, env) ==
    IF Len(s) > 0 /\ s[1] = SQ THEN [panic |-> FALSE, out |-> s]
    ELSE expand_from(s, 1, env, <<>>)

\* Faulty variant of collect_expanded: the expanded text is split again at its
\* blanks, and only its first word is kept.
first_word(out) ==
    IF \A i \in 1..Len(out) : ~IsBlank(out[i]) THEN out
    ELSE Slice(out, 1, (CHOOSE i \in 1..Len(out) :
                          IsBlank(out[i]) /\ \A j \in 1..(i - 1) : ~IsBlank(out[j])) - 1)

collect_expanded_rescanned(ex) ==
    IF \E k \in 1..Len(ex) : ex[k].panic
        THEN [err |-> "", panic |-> TRUE, args |-> <<>>]
    ELSE [err |-> "", panic |-> FALSE,
          args |-> [k \in 1..Len(ex) |-> first_word(ex[k].out)]]

\* args.drain(..).map(expand_var).collect()
collect_expanded(ex) ==
    IF \E k \in 1..Len(ex) : ex[k].panic
        THEN [err |-> "", panic |-> TRUE, args |-> <<>>]
    ELSE [err |-> "", panic |-> FALSE, args |-> [k \in 1..Len(ex) |-> ex[k].out]]

expand_tokens(r, env) ==
    IF r.err # "" THEN [err |-> r.err, panic |-> FALSE, args |-> <<>>]
    ELSE collect_expanded([k \in 1..Len(r.toks) |-> expand_var(r.toks[k], env)])

\* expand_line: [err, panic, args].
expand_line(line, env) == expand_tokens(raw_tokens(line), env)

(***************************************************************************)
(* Words of the builtin grammar, as tokens.                                *)
(***************************************************************************)
W_exit == <<"e", "x", "i", "t">>
W_quit == <<"q", "u", "i", "t">>
W_help == <<"h", "e", "l", "p">>
W_dirs == <<"d", "i", "r", "s">>
W_dump == <<"d", "u", "m", "p">>
W_cd == <<"c", "d">>
W_echo == <<"e", "c", "h", "o">>
W_var == <<"v", "a", "r">>
W_register == <<"r", "e", "g", "i", "s", "t", "e", "r">>
W_reg == <<"r", "e", "g">>
W_unregister == <<"u", "n">> \o W_register
W_unreg == <<"u", "n">> \o W_reg
W_register_file == W_register \o <<"-", "f", "i", "l", "e">>
W_regfile == <<"r", "e", "g", "f", "i", "l", "e">>
W_clear_register == <<"c", "l", "e", "a", "r", "-">> \o W_register
W_clreg == <<"c", "l", "r", "e", "g">>
F_h == <<"-", "h">>
F_help == <<"-", "-">> \o W_help
F_V == <<"-", "V">>
F_version == <<"-", "-", "v", "e", "r", "s", "i", "o", "n">>
F_d == <<"-", "d">>
F_delete == <<"-", "-", "d", "e", "l", "e", "t", "e">>

(***************************************************************************)
(* repl.rs Action.  args holds the payload: the argv of Execute, the paths *)
(* of Register, Unregister and ClearRegistry, the string of Buffer, ChDir  *)
(* and RegisterFile, <<name, value>> of StoreEnv, <<name>> of RemoveEnv.   *)
(***************************************************************************)
Action(kind, payload) == [kind |-> kind, args |-> payload]

\* A panic unwinds out of handle_line: no Action is returned.
Panicked == Action("Panic", <<>>)

(***************************************************************************)
(* The subcommand table of get_builtin (parser.rs:27-62): the name under   *)
(* which clap reports a match, for a first token that is a name or a       *)
(* visible alias.                                                          *)
(***************************************************************************)
subcommand_of(t) ==
    CASE t \in {W_exit, W_quit} -> "exit"
      [] t = W_help -> "help"
      [] t = W_dirs -> "dirs"
      [] t = W_cd -> "cd"
      [] t = W_echo -> "echo"
      [] t = W_var -> "var"
      [] t \in {W_register, W_reg} -> "register"
      [] t \in {W_unregister, W_unreg} -> "unregister"
      [] t \in {W_register_file, W_regfile} -> "register-file"
      [] t \in {W_clear_register, W_clreg} -> "clear-register"
      [] OTHER -> ""

\* The positional arguments a subcommand declares: <<required, most>>, most = -1
\* for a multiple-valued last positional.
positionals_of(sc) ==
    CASE sc = "cd" -> <<0, 1>>
      [] sc = "echo" -> <<0, -1>>
      [] sc = "var" -> <<1, 2>>
      [] sc = "register" -> <<1, -1>>
      [] sc = "unregister" -> <<1, -1>>
      [] sc = "register-file" -> <<1, 1>>
      [] sc = "clear-register" -> <<0, -1>>
      [] OTHER -> <<0, 0>>

flags_of(sc) == IF sc = "var" THEN {F_d, F_delete} ELSE {}

\* clap takes a token of two bytes or more that starts with '-' for a flag.
is_flag(t) == Len(t) >= 2 /\ t[1] = DASH

\* clap's left-to-right pass over the arguments of a subcommand: the first
\* error ends it.  [kind, pos (the positional values), nflag].
RECURSIVE clap_scan(_, _, _, _, _)
clap_scan(rest, k, sc, pos, nflag) ==
    IF k > Len(rest) THEN [kind |-> "Ok", pos |-> pos, nflag |-> nflag]
    ELSE LET t == rest[k]
             most == positionals_of(sc)[2]
         IN  IF t \in {F_h, F_help} THEN [kind |-> "HelpDisplayed", pos |-> pos, nflag |-> nflag]
             ELSE IF is_flag(t) THEN
                 IF t \in flags_of(sc) THEN clap_scan(rest, k + 1, sc, pos, nflag + 1)
                 ELSE [kind |-> "UnknownArgument", pos |-> pos, nflag |-> nflag]
             ELSE IF most >= 0 /\ Len(pos) >= most
                 THEN [kind |-> "UnknownArgument", pos |-> pos, nflag |-> nflag]
             ELSE clap_scan(rest, k + 1, sc, Append(pos, t), nflag)

clap_error(kind) == [kind |-> kind, sc |-> "", pos |-> <<>>, nflag |-> 0]

\* clap's validation once the pass has ended.
clap_validate(sc, r) ==
    IF r.kind # "Ok" THEN clap_error(r.kind)
    ELSE IF Len(r.pos) < positionals_of(sc)[1] THEN clap_error("MissingRequiredArgument")
    ELSE IF r.nflag > 1 THEN clap_error("UnexpectedMultipleUsage")
    ELSE [kind |-> "Ok", sc |-> sc, pos |-> r.pos, nflag |-> r.nflag]

clap_first(args, t, sc) ==
    IF t \in {F_h, F_help} THEN clap_error("HelpDisplayed")
    ELSE IF t \in {F_V, F_version} THEN clap_error("VersionDisplayed")
    ELSE IF is_flag(t) THEN clap_error("UnknownArgument")
    ELSE IF sc = "" THEN clap_error("UnrecognizedSubcommand")
    ELSE clap_validate(sc, clap_scan(Tail(args), 1, sc, <<>>, 0))

\* builtins.get_matches_from_safe_borrow(args): [kind, sc, pos, nflag], kind
\* "Ok" or clap's ErrorKind.
clap_matches(args) == clap_first(args, args[1], subcommand_of(args[1]))

\* The match on x.subcommand() (parser.rs:79-132).  "dirs" has no arm and
\* reaches unreachable!(); "var" unwraps VALUE, which has no default.
builtin_action(m) ==
    CASE m.sc = "dump" -> Action("Dump", <<>>)
      [] m.sc = "exit" -> Action("Exit", <<>>)
      [] m.sc = "cd" -> Action("ChDir", IF m.pos = <<>> THEN <<get_home_dir>> ELSE m.pos)
      [] m.sc = "echo" -> Action("Loop", <<>>)
      [] m.sc = "var" ->
            IF Len(m.pos) < 2 THEN Panicked
            ELSE IF m.nflag > 0 THEN Action("RemoveEnv", <<m.pos[1]>>)
            ELSE Action("StoreEnv", m.pos)
      [] m.sc = "help" -> Action("Loop", <<>>)
      [] m.sc = "register" -> Action("Register", m.pos)
      [] m.sc = "unregister" -> Action("Unregister", m.pos)
      [] m.sc = "register-file" -> Action("RegisterFile", m.pos)
      [] m.sc = "clear-register" -> Action("ClearRegistry", m.pos)
      [] OTHER -> Panicked

\* The match on the Result of clap (parser.rs:64-133): [some, act]; some =
\* FALSE is None.
builtin_result(m) ==
    IF m.kind \in {"UnknownArgument", "UnrecognizedSubcommand"}
        THEN [some |-> FALSE, act |-> Action("Loop", <<>>)]
    ELSE IF m.kind = "HelpDisplayed" THEN [some |-> TRUE, act |-> Action("Loop", <<>>)]
    ELSE IF m.kind # "Ok" THEN [some |-> TRUE, act |-> Action("Loop", <<>>)]
    ELSE [some |-> TRUE, act |-> builtin_action(m)]

get_builtin(args) == builtin_result(clap_matches(args))

(***************************************************************************)
(* context.rs take_buffer and parser.rs handle_line.  handle_line returns  *)
(* the Action, the buffer it leaves, the logical line it formed (<<>> when *)
(* it returned Buffer before take_buffer), whether expand_line was called  *)
(* and the args expand_line returned.                                      *)
(***************************************************************************)
take_buffer(buf, join_with) == [full_line |-> buf \o join_with, buffer |-> <<>>]

\* parser.rs:159-162: get_builtin(&args).unwrap_or_else(|| Execute(args))
\* Faulty variant of builtin_or_execute: the program name is left out of the
\* argv of Execute.
execute_without_program(b, args) ==
    IF b.some THEN b.act ELSE Action("Execute", Tail(args))

builtin_or_execute(b, args) == IF b.some THEN b.act ELSE Action("Execute", args)

\* parser.rs:151-162: the match on expand_line and what follows it.
resolve_args(e) ==
    IF e.err # "" THEN Action("Loop", <<>>)
    ELSE IF e.panic THEN Panicked
    ELSE builtin_or_execute(get_builtin(e.args), e.args)

handle_expanded(t, e) ==
    [act |-> resolve_args(e), buffer |-> t.buffer, full |-> t.full_line,
     lexed |-> TRUE, args |-> e.args]

\* parser.rs:145-162: handle_line once the line is known not to continue.
handle_full_line(t, env) ==
    IF trim_is_empty(t.full_line)
        THEN [act |-> Action("Loop", <<>>), buffer |-> t.buffer,
              full |-> t.full_line, lexed |-> FALSE, args |-> <<>>]
    ELSE handle_expanded(t, expand_line(t.full_line, env))

\* parser.rs:139 line.ends_with('\\')
is_continuation(line) == ends_with_backslash(line)

handle_line(buf, env, line) ==
    IF is_continuation(line)
        THEN [act |-> Action("Buffer", Slice(line, 1, Len(line) - 1)),
              buffer |-> buf, full |-> <<>>, lexed |-> FALSE, args |-> <<>>]
    ELSE handle_full_line(take_buffer(buf, line), env)

(***************************************************************************)
(* The filesystem as the shell sees it.  fs is the set of directories that *)
(* exist.  Path::canonicalize resolves an absolute path to itself, "." to  *)
(* the working directory and any other path relative to the working        *)
(* directory; it fails when the result does not exist.                     *)
(***************************************************************************)
DOT == <<".">>

join_path(cwd, rel) == IF cwd = Root THEN Root \o rel ELSE cwd \o <<SLASH>> \o rel

resolve(path, cwd) ==
    IF path = DOT THEN cwd
    ELSE IF path[1] = SLASH THEN path
    ELSE join_path(cwd, path)

\* Faulty variant of canonicalize: the path is made absolute without a look at
\* the filesystem.
canonicalize_without_lookup(path, cwd, fs) ==
    IF path # <<>> THEN [ok |-> TRUE, path |-> resolve(path, cwd)]
    ELSE [ok |-> FALSE, path |-> path]

canonicalize(path, cwd, fs) ==
    IF path # <<>> /\ resolve(path, cwd) \in fs
        THEN [ok |-> TRUE, path |-> resolve(path, cwd)]
    ELSE [ok |-> FALSE, path |-> path]

\* The one registry file of the model, /f, and its whitespace-separated words.
RegistryFile == <<"/", "f">>
RegistryFileWords == <<DirA, <<"b">>, <<"n">>>>

\* context.rs read_registry_file
read_registry_file(name, cwd) ==
    IF name # <<>> /\ resolve(name, cwd) = RegistryFile
        THEN [ok |-> TRUE, v |-> RegistryFileWords]
    ELSE [ok |-> FALSE, v |-> <<>>]

(***************************************************************************)
(* context.rs Context: register, unregister, register_paths,               *)
(* unregister_paths.  A result is [ok, real_path, flag, reg]: flag is the  *)
(* bool of the Ok pair, reg the registry afterwards.                       *)
(***************************************************************************)
\* Faulty variant of insert_path: the path is inserted as it was spelled.
insert_raw_path(reg, path, c) ==
    IF ~c.ok THEN [ok |-> FALSE, real_path |-> path, flag |-> FALSE, reg |-> reg]
    ELSE [ok |-> TRUE, real_path |-> c.path, flag |-> path \notin reg,
          reg |-> reg \cup {path}]

\* Faulty variant of insert_path: the error of canonicalize is dropped and the path
\* stored as it was spelled.
insert_unchecked_path(reg, path, c) ==
    IF ~c.ok THEN [ok |-> TRUE, real_path |-> path, flag |-> path \notin reg,
                   reg |-> reg \cup {path}]
    ELSE [ok |-> TRUE, real_path |-> c.path, flag |-> c.path \notin reg,
          reg |-> reg \cup {c.path}]

\* context.rs:64  Ok((real_path.clone(), self.dir_registry.insert(real_path)))
insert_path(reg, path, c) ==
    IF ~c.ok THEN [ok |-> FALSE, real_path |-> path, flag |-> FALSE, reg |-> reg]
    ELSE [ok |-> TRUE, real_path |-> c.path, flag |-> c.path \notin reg,
          reg |-> reg \cup {c.path}]

register(reg, path, cwd, fs) == insert_path(reg, path, canonicalize(path, cwd, fs))

\* Faulty variant of remove_path: the removal of an entry empties the set.
remove_path_and_others(reg, path, c) ==
    IF ~c.ok THEN [ok |-> FALSE, real_path |-> path, flag |-> FALSE, reg |-> reg]
    ELSE [ok |-> TRUE, real_path |-> c.path, flag |-> c.path \in reg,
          reg |-> IF c.path \in reg THEN {} ELSE reg]

\* context.rs:69-70  self.dir_registry.remove(&real_path)
remove_path(reg, path, c) ==
    IF ~c.ok THEN [ok |-> FALSE, real_path |-> path, flag |-> FALSE, reg |-> reg]
    ELSE [ok |-> TRUE, real_path |-> c.path, flag |-> c.path \in reg,
          reg |-> reg \ {c.path}]

unregister(reg, path, cwd, fs) == remove_path(reg, path, canonicalize(path, cwd, fs))

\* What register_paths and unregister_paths report for one path.
reported(path, r) ==
    [path |-> path, ok |-> r.ok, real_path |-> r.real_path, flag |-> r.flag]

\* for path in paths { ... continue on Err ... }: [reg, log], log the result
\* reported for each path.
RECURSIVE register_paths(_, _, _, _, _)
RECURSIVE register_next(_, _, _, _, _)
register_next(r, paths, cwd, fs, log) ==
    register_paths(r.reg, Tail(paths), cwd, fs, Append(log, reported(Head(paths), r)))

register_paths(reg, paths, cwd, fs, log) ==
    IF paths = <<>> THEN [reg |-> reg, log |-> log]
    ELSE register_next(register(reg, Head(paths), cwd, fs), paths, cwd, fs, log)

RECURSIVE unregister_paths(_, _, _, _, _)
RECURSIVE unregister_next(_, _, _, _, _)
\* Faulty variant of unregister_next: the pass ends at the first path that
\* does not canonicalize.
unregister_until_error(r, paths, cwd, fs, log) ==
    IF ~r.ok THEN [reg |-> r.reg, log |-> Append(log, reported(Head(paths), r))]
    ELSE unregister_paths(r.reg, Tail(paths), cwd, fs, Append(log, reported(Head(paths), r)))

unregister_next(r, paths, cwd, fs, log) ==
    unregister_paths(r.reg, Tail(paths), cwd, fs, Append(log, reported(Head(paths), r)))

unregister_paths(reg, paths, cwd, fs, log) ==
    IF paths = <<>> THEN [reg |-> reg, log |-> log]
    ELSE unregister_next(unregister(reg, Head(paths), cwd, fs), paths, cwd, fs, log)

\* context.rs push_buffer
push_buffer(buf, push) == buf \o push

\* context.rs:94-103: the registry the broadcast iterates over.
broadcast_registry(reg, cwd) == IF reg = {} THEN reg \cup {cwd} ELSE reg

\* Faulty variant of registry_after_broadcast: the temporary target is not removed.
registry_kept(reg, empty) == reg

\* Faulty variant of registry_after_broadcast: the clear is not conditional.
registry_cleared(reg, empty) == {}

\* context.rs:110-112: the registry run_executable leaves.
registry_after_broadcast(reg, empty) == IF empty THEN {} ELSE reg

(***************************************************************************)
(* std::env::set_var and remove_var panic on an empty name and on a name   *)
(* that holds '='.                                                         *)
(***************************************************************************)
env_name_panics(name) == name = <<>> \/ \E i \in 1..Len(name) : name[i] = "="

set_var(env, name, value) == (name :> value) @@ env

remove_var(env, name) == [n \in (DOMAIN env) \ {name} |-> env[n]]

(***************************************************************************)
(* Bounds of the model.                                                    *)
(***************************************************************************)
\* The most raw lines a pending logical line may hold before its last one.
MaxParts == 2

\* The most characters of an input of expand_line checked on its own.
MaxLineLen == 4

(***************************************************************************)
(* The lines the reader may return.                                        *)
(***************************************************************************)
RECURSIVE Words(_)
Words(ws) ==
    IF ws = <<>> THEN <<>>
    ELSE IF Len(ws) = 1 THEN ws[1]
    ELSE ws[1] \o <<SP>> \o Words(Tail(ws))

T_x == <<"x">>
T_X == <<"X">>
T_v == <<"v">>
T_a == <<"a">>
T_b == <<"b">>
T_n == <<"n">>
F_x == <<"-", "x">>

LexLines ==
    { <<>>,
      <<SP>>,
      T_x,
      <<"x", BS>>,
      <<"x", BS, BS>>,
      <<BS>>,
      <<DQ, "x">>,
      <<SQ, "x">>,
      <<DQ, "x", BS, BS>>,
      <<DQ, BS, BS, DQ>>,
      <<DOLLAR, "X">>,
      <<TILDE>> }

BuiltinLines ==
    { Words(<<W_exit>>), Words(<<W_quit>>), Words(<<W_exit, T_x>>),
      Words(<<W_help>>), Words(<<W_dirs>>), Words(<<W_dump>>),
      Words(<<W_cd>>), Words(<<W_cd, DirB>>), Words(<<W_cd, Root>>),
      Words(<<W_echo, T_x>>),
      Words(<<W_var, T_X>>), Words(<<W_var, T_X, T_v>>),
      Words(<<W_var, F_d, T_X>>), Words(<<W_var, F_d, T_X, T_v>>),
      Words(<<W_var, T_X, T_v, F_delete>>), Words(<<W_var, F_x, T_X>>),
      Words(<<F_help>>), Words(<<F_x>>) }

RegistryLines ==
    { Words(<<W_reg, T_a, DirA>>), Words(<<W_register, DirB, T_n>>),
      Words(<<W_reg, DOT>>), Words(<<W_register>>),
      Words(<<W_unreg, DirA>>), Words(<<W_unregister, T_n, T_b>>),
      Words(<<W_regfile, RegistryFile>>), Words(<<W_regfile, T_n>>),
      Words(<<W_clreg>>), Words(<<W_clear_register, DirB>>) }

SessionLines ==
    { <<>>, T_x, <<BS>>,
      Words(<<W_exit>>), Words(<<W_cd>>), Words(<<W_cd, DirB>>), Words(<<W_cd, Root>>),
      Words(<<W_echo, T_x>>),
      Words(<<W_var, T_X, T_v>>), Words(<<W_var, F_d, T_X, T_v>>) }

\* The lines of the session specification and of the line-interpretation one.
Lines == SessionLines \cup RegistryLines

LexerLines == LexLines \cup BuiltinLines

\* The directory lists the configuration may preload (init_context).
Preloads == { <<>>, <<DirA>>, <<T_n, DirB>> }

\* The directories another process may remove while the shell runs.
Removable == {DirB}

(***************************************************************************)
(* The state.                                                              *)
(***************************************************************************)
VARIABLES
    pc,             \* "prompt": repl_loop reads a line; "exec": inside
                    \* Context::run_executable; "done": the loop has ended;
                    \* "panic": the process has panicked
    buffer,         \* Context.buffer
    dir_registry,   \* Context.dir_registry
    cwd,            \* the working directory of the process
    fs,             \* the directories that exist
    env,            \* the environment variables of the process
    line,           \* the last raw line read
    action,         \* the Action handle_line returned for it
    full,           \* the logical line it formed
    lexed,          \* whether expand_line was called for it
    argv,           \* the args expand_line returned for it
    parts,          \* history: the raw lines of the logical line that line
                    \* belongs to, line included
    results,        \* the per-path results of the last register/unregister pass
    canonicalized,  \* history: the paths canonicalize has returned to register
    run             \* the broadcast: argv, targets, what each has reported and
                    \* (history, stdout) the output captured from each;
                    \* before is history, the registry run_executable was
                    \* called with

vars == <<pc, buffer, dir_registry, cwd, fs, env, line, action, full, lexed, argv,
          parts, results, canonicalized, run>>

NoRun ==
    [args |-> <<>>, empty |-> FALSE, before |-> {}, pending |-> {}, running |-> {},
     attempts |-> [d \in Dirs |-> 0], reports |-> [d \in Dirs |-> <<>>],
     stdout |-> [d \in Dirs |-> <<>>]]

\* The canonical paths a pass of register_paths obtains from canonicalize.
canonical_of(paths, at, exist) ==
    { canonicalize(paths[i], at, exist).path :
        i \in { j \in 1..Len(paths) : canonicalize(paths[j], at, exist).ok } }

\* init_context: Context::default(), then register_paths on the preload list r
\* has the result of.
init_context(pre, r) ==
    /\ pc = "prompt"
    /\ buffer = <<>>
    /\ dir_registry = r.reg
    /\ cwd = Root
    /\ fs = Dirs
    /\ env = <<>>
    /\ line = <<>>
    /\ action = Action("Loop", <<>>)
    /\ full = <<>>
    /\ lexed = FALSE
    /\ argv = <<>>
    /\ parts = <<>>
    /\ results = r.log
    /\ canonicalized = canonical_of(pre, Root, Dirs)
    /\ run = NoRun

\* repl_loop up to the first prompt.
Init == \E pre \in Preloads : init_context(pre, register_paths({}, pre, Root, Dirs, <<>>))

(***************************************************************************)
(* repl_loop, one iteration: rl.readline returns l, handle_line resolves   *)
(* it and the match applies the Action.  Execute enters run_executable:    *)
(* the targets then run as separate steps.                                 *)
(***************************************************************************)
\* The paths a registry Action passes to register_paths or unregister_paths.
paths_of(a, at) ==
    IF a.kind = "RegisterFile" THEN read_registry_file(a.args[1], at).v ELSE a.args

\* Faulty variant of registry_pass: ClearRegistry does not clear.
registry_pass_without_clear(a, reg, at, exist) ==
    CASE a.kind = "Register" -> register_paths(reg, a.args, at, exist, <<>>)
      [] a.kind = "Unregister" -> unregister_paths(reg, a.args, at, exist, <<>>)
      [] a.kind = "ClearRegistry" -> register_paths(reg, a.args, at, exist, <<>>)
      [] a.kind = "RegisterFile" -> register_paths(reg, paths_of(a, at), at, exist, <<>>)
      [] OTHER -> [reg |-> reg, log |-> <<>>]

\* The registry pass of the match arms repl.rs:214-229.
registry_pass(a, reg, at, exist) ==
    CASE a.kind = "Register" -> register_paths(reg, a.args, at, exist, <<>>)
      [] a.kind = "Unregister" -> unregister_paths(reg, a.args, at, exist, <<>>)
      [] a.kind = "ClearRegistry" -> register_paths({}, a.args, at, exist, <<>>)
      [] a.kind = "RegisterFile" -> register_paths(reg, paths_of(a, at), at, exist, <<>>)
      [] OTHER -> [reg |-> reg, log |-> <<>>]

\* What applying the Action panics on: the assert of run_executable and the
\* panics of set_var and remove_var.
apply_panics(a) ==
    \/ a.kind = "Panic"
    \/ a.kind = "Execute" /\ a.args = <<>>
    \/ a.kind \in {"StoreEnv", "RemoveEnv"} /\ env_name_panics(a.args[1])

\* std::env::set_current_dir(p): an error leaves the directory as it is.
set_current_dir(p, at, exist) ==
    LET c == canonicalize(p, at, exist) IN IF c.ok THEN c.path ELSE at

\* The raw lines read so far of a logical line that is not complete yet.
pending_parts == IF action.kind = "Buffer" THEN parts ELSE <<>>

\* Context::run_executable up to the parallel iteration (context.rs:81-105).
start_broadcast(a, reg, at) ==
    [NoRun EXCEPT !.args = a.args,
                  !.empty = (reg = {}),
                  !.before = reg,
                  !.pending = broadcast_registry(reg, at)]

\* The match of repl_loop on the Action a (repl.rs:205-241); h is what
\* handle_line returned, rp the registry pass of a.
apply_action(l, h, a, rp) ==
    /\ a.kind = "Buffer" => Len(pending_parts) < MaxParts
    /\ line' = l
    /\ action' = a
    /\ full' = h.full
    /\ lexed' = h.lexed
    /\ argv' = h.args
    /\ parts' = Append(pending_parts, l)
    /\ IF apply_panics(a)
         THEN /\ pc' = "panic"
              /\ buffer' = h.buffer
              /\ UNCHANGED <<dir_registry, cwd, env, results, canonicalized>>
              /\ run' = NoRun
         ELSE /\ pc' = CASE a.kind = "Exit" -> "done"
                         [] a.kind = "Execute" -> "exec"
                         [] OTHER -> "prompt"
              /\ buffer' = IF a.kind = "Buffer" THEN push_buffer(h.buffer, a.args)
                           ELSE h.buffer
              /\ dir_registry' =
                     IF a.kind = "Execute" THEN broadcast_registry(dir_registry, cwd)
                     ELSE rp.reg
              /\ results' = rp.log
              /\ canonicalized' =
                     IF a.kind \in {"Register", "ClearRegistry", "RegisterFile"}
                         THEN canonicalized \cup canonical_of(paths_of(a, cwd), cwd, fs)
                     ELSE canonicalized
              /\ cwd' = IF a.kind = "ChDir" THEN set_current_dir(a.args[1], cwd, fs)
                        ELSE cwd
              /\ env' = CASE a.kind = "StoreEnv" -> set_var(env, a.args[1], a.args[2])
                          [] a.kind = "RemoveEnv" -> remove_var(env, a.args[1])
                          [] OTHER -> env
              /\ run' = IF a.kind = "Execute" THEN start_broadcast(a, dir_registry, cwd)
                        ELSE NoRun
    /\ UNCHANGED fs

dispatch(l, h) == apply_action(l, h, h.act, registry_pass(h.act, dir_registry, cwd, fs))

ReadLine(l) ==
    /\ pc = "prompt"
    /\ dispatch(l, handle_line(buffer, env, l))

\* rl.readline returns Err (end of input, an interrupt): the loop breaks.
ReadError ==
    /\ pc = "prompt"
    /\ pc' = "done"
    /\ UNCHANGED <<buffer, dir_registry, cwd, fs, env, line, action, full, lexed,
                   argv, parts, results, canonicalized, run>>

(***************************************************************************)
(* The broadcast: context.rs run_executable(args, path), once per target,  *)
(* on the worker pool.  Command::output() either fails to spawn (always    *)
(* when the target directory is gone) or blocks until the child has ended. *)
(***************************************************************************)
\* Faulty variant of spawn_failed: the Err arm does not return and the
\* output block is printed as well.
spawn_failed_without_return(reports, p) ==
    [reports EXCEPT ![p] = @ \o <<"diagnostic", "block">>]

\* context.rs:133-140: the diagnostic of a spawn failure.
spawn_failed(reports, p) == [reports EXCEPT ![p] = Append(@, "diagnostic")]

\* The standard output a child may have written: nothing, a newline only,
\* a line of text.
NL == "\n"
Outputs == { <<>>, <<NL>>, <<"o", NL>> }

\* output.trim().is_empty() on the captured output.
output_is_blank(out) == \A i \in 1..Len(out) : out[i] \in {SP, TAB, NL}

\* Faulty variant of output_collected: the block is printed unless the output is
\* empty.
output_collected_unless_empty(reports, p, out) ==
    IF out = <<>> THEN reports ELSE [reports EXCEPT ![p] = Append(@, "block")]

\* context.rs:143-146: the output block, printed when the output is not blank.
output_collected(reports, p, out) ==
    IF output_is_blank(out) THEN reports ELSE [reports EXCEPT ![p] = Append(@, "block")]

\* Faulty variant of Spawn: a target that fails to spawn is dropped from the
\* registry.
Spawn_unregistering(p, ok) ==
    /\ pc = "exec"
    /\ p \in run.pending
    /\ ok => p \in fs
    /\ run' = [run EXCEPT !.pending = @ \ {p},
                          !.attempts[p] = @ + 1,
                          !.running = IF ok THEN @ \cup {p} ELSE @,
                          !.reports = IF ok THEN @ ELSE spawn_failed(@, p)]
    /\ dir_registry' = IF ok THEN dir_registry ELSE dir_registry \ {p}
    /\ UNCHANGED <<pc, buffer, cwd, fs, env, line, action, full, lexed,
                   argv, parts, results, canonicalized>>

\* Faulty variant of Spawn: a spawn failure cancels the targets not yet started.
Spawn_cancelling(p, ok) ==
    /\ pc = "exec"
    /\ p \in run.pending
    /\ ok => p \in fs
    /\ run' = [run EXCEPT !.pending = IF ok THEN @ \ {p} ELSE {},
                          !.attempts[p] = @ + 1,
                          !.running = IF ok THEN @ \cup {p} ELSE @,
                          !.reports = IF ok THEN @ ELSE spawn_failed(@, p)]
    /\ UNCHANGED <<pc, buffer, dir_registry, cwd, fs, env, line, action, full, lexed,
                   argv, parts, results, canonicalized>>

Spawn(p, ok) ==
    /\ pc = "exec"
    /\ p \in run.pending
    /\ ok => p \in fs
    /\ run' = [run EXCEPT !.pending = @ \ {p},
                          !.attempts[p] = @ + 1,
                          !.running = IF ok THEN @ \cup {p} ELSE @,
                          !.reports = IF ok THEN @ ELSE spawn_failed(@, p)]
    /\ UNCHANGED <<pc, buffer, dir_registry, cwd, fs, env, line, action, full, lexed,
                   argv, parts, results, canonicalized>>

Collect(p, out) ==
    /\ pc = "exec"
    /\ p \in run.running
    /\ run' = [run EXCEPT !.running = @ \ {p},
                          !.stdout[p] = Append(@, out),
                          !.reports = output_collected(@, p, out)]
    /\ UNCHANGED <<pc, buffer, dir_registry, cwd, fs, env, line, action, full, lexed,
                   argv, parts, results, canonicalized>>

\* Faulty variant of Join: run_executable returns once every target has been
\* started, without waiting for them to end.
Join_without_waiting ==
    /\ pc = "exec"
    /\ run.pending = {}
    /\ dir_registry' = registry_after_broadcast(dir_registry, run.empty)
    /\ pc' = "prompt"
    /\ UNCHANGED <<buffer, cwd, fs, env, line, action, full, lexed, argv, parts,
                   results, canonicalized, run>>

\* for_each returns when every target has ended; context.rs:110-112.
Join ==
    /\ pc = "exec"
    /\ run.pending = {}
    /\ run.running = {}
    /\ dir_registry' = registry_after_broadcast(dir_registry, run.empty)
    /\ pc' = "prompt"
    /\ UNCHANGED <<buffer, cwd, fs, env, line, action, full, lexed, argv, parts,
                   results, canonicalized, run>>

\* Another process removes a directory (never the shell's working directory:
\* the model keeps the prompt's current_dir readable).
RemoveDir(d) ==
    /\ pc \in {"prompt", "exec"}
    /\ d \in fs
    /\ d # cwd
    /\ fs' = fs \ {d}
    /\ UNCHANGED <<pc, buffer, dir_registry, cwd, env, line, action, full, lexed,
                   argv, parts, results, canonicalized, run>>

\* What happens besides the reading of a line.
Broadcast ==
    \/ \E p \in Dirs, ok \in BOOLEAN : Spawn(p, ok)
    \/ \E p \in Dirs, out \in Outputs : Collect(p, out)
    \/ Join

Next ==
    \/ \E l \in Lines : ReadLine(l)
    \/ ReadError
    \/ Broadcast
    \/ \E d \in Removable : RemoveDir(d)

\* The session: registry commands and broadcasts.
Spec == Init /\ [][Next]_vars

NextLex ==
    \/ \E l \in LexerLines : ReadLine(l)
    \/ ReadError
    \/ Broadcast
    \/ \E d \in Removable : RemoveDir(d)

\* The interpretation of lines: continuation, quoting, the builtin grammar.
SpecLex == Init /\ [][NextLex]_vars

(***************************************************************************)
(* expand_line on its own: the input is any string of at most MaxLineLen   *)
(* characters of ExpandChars, the environment one of ExpandEnvs.  line is the   *)
(* input, full the string expand_line was called on, argv what it returned.*)
(***************************************************************************)
ExpandChars ==
    { <<"X">>, <<SP>>, <<TAB>>, <<BS>>, <<DQ>>, <<SQ>>, <<DOLLAR>>, <<TILDE>>, E_ACUTE }

\* The bytes of the string of the characters cs.
RECURSIVE str_bytes(_)
str_bytes(cs) == IF cs = <<>> THEN <<>> ELSE Head(cs) \o str_bytes(Tail(cs))

ExpandLines ==
    { str_bytes(cs) : cs \in UNION { [1..n -> ExpandChars] : n \in 0..MaxLineLen } }

\* X unset, a plain value, a value with a blank and a variable reference, a
\* value with a quote and a tilde.
ExpandEnvs ==
    { <<>>,
      T_X :> T_v,
      T_X :> <<"v", SP, DOLLAR, "X">>,
      T_X :> <<DQ, TILDE>> }

InitExpand ==
    /\ pc = "prompt"
    /\ buffer = <<>>
    /\ dir_registry = {}
    /\ cwd = Root
    /\ fs = Dirs
    /\ env \in ExpandEnvs
    /\ line \in ExpandLines
    /\ action = Action("Loop", <<>>)
    /\ full = <<>>
    /\ lexed = FALSE
    /\ argv = <<>>
    /\ parts = <<>>
    /\ results = <<>>
    /\ canonicalized = {}
    /\ run = NoRun

\* The call expand_line(&line) has returned r, or panicked.
expand_returned(r) ==
    /\ lexed' = TRUE
    /\ full' = line
    /\ argv' = r.args
    /\ action' = IF r.panic THEN Panicked ELSE Action("Loop", <<>>)
    /\ pc' = IF r.panic THEN "panic" ELSE "done"
    /\ UNCHANGED <<buffer, dir_registry, cwd, fs, env, line, parts, results,
                   canonicalized, run>>

ExpandLine ==
    /\ pc = "prompt"
    /\ ~lexed
    /\ expand_returned(expand_line(line, env))

NextExpand == ExpandLine

SpecExpand == InitExpand /\ [][NextExpand]_vars

(***************************************************************************)
(* The grammar table of the specification, for the statements about the    *)
(* builtin commands.                                                       *)
(***************************************************************************)
GrammarNames ==
    {W_exit, W_quit, W_help, W_dump, W_cd, W_echo, W_var, W_register, W_reg,
     W_unregister, W_unreg, W_register_file, W_regfile, W_clear_register, W_clreg}

\* The positional arguments the table gives a name: <<least, most>>, most = -1
\* for "or more".
GrammarArity(name) ==
    CASE name \in {W_exit, W_quit, W_help, W_dump} -> <<0, 0>>
      [] name = W_cd -> <<0, 1>>
      [] name = W_var -> <<1, 2>>
      [] name \in {W_register, W_reg, W_unregister, W_unreg} -> <<1, -1>>
      [] name \in {W_register_file, W_regfile} -> <<1, 1>>
      [] OTHER -> <<0, -1>>

GrammarFlags(name) == IF name = W_var THEN {F_d, F_delete} ELSE {}

Flags(args) == { k \in 2..Len(args) : is_flag(args[k]) }
Positionals(args) == SelectSeq(Tail(args), LAMBDA t : ~is_flag(t))

WrongArity(args) ==
    \/ Len(Positionals(args)) < GrammarArity(args[1])[1]
    \/ /\ GrammarArity(args[1])[2] >= 0
       /\ Len(Positionals(args)) > GrammarArity(args[1])[2]

UnknownFlag(args) == \E k \in Flags(args) : args[k] \notin GrammarFlags(args[1])

\* The number of backslashes the line ends in.
RECURSIVE TrailingBackslashes(_)
TrailingBackslashes(l) ==
    IF l # <<>> /\ l[Len(l)] = BS
        THEN 1 + TrailingBackslashes(SubSeq(l, 1, Len(l) - 1))
    ELSE 0

\* The line ends in a backslash that no backslash before it escapes.
EndsUnescaped(l) == TrailingBackslashes(l) % 2 = 1

\* The line ends in an escaped backslash.
EndsEscaped(l) == TrailingBackslashes(l) > 0 /\ TrailingBackslashes(l) % 2 = 0

\* The raw lines ls joined, each but the last without its last byte.
RECURSIVE JoinContinued(_)
JoinContinued(ls) ==
    IF Len(ls) = 1 THEN ls[1]
    ELSE SubSeq(ls[1], 1, Len(ls[1]) - 1) \o JoinContinued(Tail(ls))

(***************************************************************************)
(* C1: no sequence of input lines makes the session panic: every line is   *)
(* interpreted to an Action.                                               *)
(***************************************************************************)
C1_NeverPanics == pc # "panic" /\ action.kind # "Panic"

(***************************************************************************)
(* C2: a broadcast started with an empty registry has the working          *)
(* directory as its only target, attempts it once, and leaves the registry *)
(* empty when it returns.                                                  *)
(***************************************************************************)
C2_EmptyRegistryBroadcast ==
    (run.args # <<>> /\ run.empty) =>
        /\ run.pending \cup run.running \subseteq {cwd}
        /\ \A d \in Dirs \ {cwd} : run.attempts[d] = 0
        /\ run.attempts[cwd] <= 1
        /\ pc # "exec" => (run.attempts[cwd] = 1 /\ dir_registry = {})

C2_Witness ==
    /\ pc = "prompt"
    /\ action.kind = "Execute"
    /\ run.args # <<>>
    /\ run.empty
    /\ run.attempts[cwd] = 1
    /\ dir_registry = {}

(***************************************************************************)
(* C3: a logical line whose first token is a builtin name and whose        *)
(* arguments are malformed (wrong number of arguments, unknown flag)       *)
(* resolves to Loop.                                                       *)
(***************************************************************************)
C3_MalformedBuiltinLoops ==
    (argv # <<>> /\ argv[1] \in GrammarNames /\ (WrongArity(argv) \/ UnknownFlag(argv)))
        => action.kind = "Loop"

(***************************************************************************)
(* C4: a raw line that ends in an escaped backslash is not a continuation: *)
(* it does not resolve to Buffer and leaves nothing in the buffer.         *)
(***************************************************************************)
C4_EscapedBackslashCompletes ==
    (parts # <<>> /\ EndsEscaped(line)) => (action.kind # "Buffer" /\ buffer = <<>>)

(***************************************************************************)
(* C5: after n >= 1 raw lines that each end in an unescaped backslash, a   *)
(* raw line that does not end in one completes the logical line, which is  *)
(* the n lines without their last backslash followed by that line.         *)
(***************************************************************************)
C5_ContinuationRun ==
    ( /\ Len(parts) >= 2
      /\ \A k \in 1..(Len(parts) - 1) : EndsUnescaped(parts[k])
      /\ ~EndsUnescaped(parts[Len(parts)]) )
        => (action.kind # "Buffer" /\ full = JoinContinued(parts))

(***************************************************************************)
(* C6: the logical line dump resolves to the Dump action.                  *)
(***************************************************************************)
C6_DumpResolvesToDump == argv = <<W_dump>> => action.kind = "Dump"

(***************************************************************************)
(* C7: var with a NAME and the delete flag resolves to RemoveEnv of NAME,  *)
(* with or without a VALUE; var with a NAME and no delete flag resolves to *)
(* StoreEnv of NAME, with or without a VALUE.                              *)
(***************************************************************************)
C7_VarResolution ==
    ( /\ argv # <<>>
      /\ argv[1] = W_var
      /\ ~WrongArity(argv)
      /\ ~UnknownFlag(argv)
      /\ Cardinality(Flags(argv)) <= 1 )
        => IF Flags(argv) # {}
             THEN action = Action("RemoveEnv", <<Positionals(argv)[1]>>)
           ELSE action.kind = "StoreEnv" /\ action.args[1] = Positionals(argv)[1]

(***************************************************************************)
(* C8: a token list whose first token is no builtin name or alias resolves *)
(* to Execute of exactly that list.                                        *)
(***************************************************************************)
C8_NonBuiltinExecutes ==
    (argv # <<>> /\ argv[1] \notin GrammarNames) => action = Action("Execute", argv)

(***************************************************************************)
(* C9: register is idempotent on the canonical path.  In one Register      *)
(* pass, a path that canonicalizes is reported new exactly when its        *)
(* canonical form was not in the registry and no earlier path of the pass  *)
(* has the same canonical form; the count grows by the number of distinct  *)
(* new canonical forms.                                                    *)
(***************************************************************************)
\* The step reads a line and applies its Action without leaving the prompt:
\* of the steps from prompt to prompt only RemoveDir changes fs.
LineApplied == pc = "prompt" /\ pc' = "prompt" /\ fs' = fs

SameDirectory(p, q, at, exist) ==
    /\ canonicalize(p, at, exist).ok
    /\ canonicalize(q, at, exist).ok
    /\ canonicalize(p, at, exist).path = canonicalize(q, at, exist).path

C9_RegisterPass(reg, log, regAfter, at, exist) ==
    /\ \A j \in 1..Len(log) :
         canonicalize(log[j].path, at, exist).ok =>
            /\ log[j].ok
            /\ log[j].flag =
                 ( /\ canonicalize(log[j].path, at, exist).path \notin reg
                   /\ \A i \in 1..(j - 1) :
                        ~SameDirectory(log[i].path, log[j].path, at, exist) )
    /\ Cardinality(regAfter) = Cardinality(reg \cup canonical_of([k \in 1..Len(log) |-> log[k].path], at, exist))

C9_RegisterIdempotent ==
    [][ (LineApplied /\ action'.kind = "Register")
          => C9_RegisterPass(dir_registry, results', dir_registry', cwd, fs) ]_vars

C9_Witness ==
    /\ action.kind = "Register"
    /\ Len(results) = 2
    /\ results[1].path # results[2].path
    /\ results[1].ok /\ results[2].ok
    /\ results[1].real_path = results[2].real_path
    /\ results[1].flag
    /\ ~results[2].flag
    /\ Cardinality(dir_registry) = 1

(***************************************************************************)
(* C10: every member of the registry is a path canonicalize returned to    *)
(* register.  As stated for every reachable state it fails inside a        *)
(* broadcast started with an empty registry; amended: outside such a       *)
(* broadcast every member is such a path, and inside it the registry holds *)
(* exactly the working directory.                                          *)
(***************************************************************************)
C10_Original == dir_registry \subseteq canonicalized

C10_RegistryCanonical ==
    IF pc = "exec" /\ run.empty THEN dir_registry = {cwd}
    ELSE dir_registry \subseteq canonicalized

C10_Witness ==
    /\ action.kind = "Register"
    /\ \E i \in 1..Len(results) : ~results[i].ok
    /\ \E i \in 1..Len(results) : results[i].ok /\ results[i].flag
    /\ dir_registry # {}

(***************************************************************************)
(* C11: unregister of a path that canonicalizes and is not in the registry *)
(* returns Ok with was_present = false and leaves the registry as it is;   *)
(* unregister of a path that is in the registry returns was_present = true *)
(* and removes that entry and no other.  An Unregister pass is replayed    *)
(* path by path against the results it reported.                           *)
(***************************************************************************)
RECURSIVE C11_UnregisterPass(_, _, _, _, _)
C11_UnregisterOne(reg, r, c, rest, regAfter, at, exist) ==
    IF ~c.ok THEN ~r.ok /\ C11_UnregisterPass(reg, rest, regAfter, at, exist)
    ELSE /\ r.ok
         /\ r.real_path = c.path
         /\ r.flag = (c.path \in reg)
         /\ C11_UnregisterPass(reg \ {c.path}, rest, regAfter, at, exist)

C11_UnregisterPass(reg, log, regAfter, at, exist) ==
    IF log = <<>> THEN regAfter = reg
    ELSE C11_UnregisterOne(reg, Head(log), canonicalize(Head(log).path, at, exist),
                           Tail(log), regAfter, at, exist)

C11_UnregisterExact ==
    [][ (LineApplied /\ action'.kind = "Unregister")
          => /\ [k \in 1..Len(results') |-> results'[k].path] = action'.args
             /\ C11_UnregisterPass(dir_registry, results', dir_registry', cwd, fs) ]_vars

C11_Witness ==
    /\ action.kind = "Unregister"
    /\ \E i \in 1..Len(results) :
         results[i].ok /\ results[i].flag /\ results[i].real_path \notin dir_registry
    /\ dir_registry # {}

(***************************************************************************)
(* C12: in a Register or Unregister pass a path that does not canonicalize *)
(* does not stop the pass: afterwards the registry is the old set plus     *)
(* (Register) or minus (Unregister) the canonical forms of the paths of    *)
(* the list that canonicalize, wherever the failing paths stand.           *)
(***************************************************************************)
Canonicalizing(paths, at, exist) ==
    { canonicalize(paths[k], at, exist).path :
        k \in { j \in 1..Len(paths) : canonicalize(paths[j], at, exist).ok } }

C12_FailureDoesNotStopPass ==
    [][ LineApplied =>
          /\ action'.kind = "Register" =>
                dir_registry' = dir_registry \cup Canonicalizing(action'.args, cwd, fs)
          /\ action'.kind = "Unregister" =>
                dir_registry' = dir_registry \ Canonicalizing(action'.args, cwd, fs) ]_vars

C12_Witness ==
    /\ action.kind = "Unregister"
    /\ Len(results) = 2
    /\ ~results[1].ok
    /\ results[2].ok
    /\ results[2].flag
    /\ results[2].real_path \notin dir_registry

(***************************************************************************)
(* C13: after a clear-register line with zero or more paths the registry   *)
(* is the set of the canonical forms of the paths that canonicalize,       *)
(* whatever it held before; with no path it is empty.                      *)
(***************************************************************************)
C13_ClearThenAdd ==
    [][ (LineApplied /\ action'.kind = "ClearRegistry")
          => dir_registry' = Canonicalizing(action'.args, cwd, fs) ]_vars

C13_Witness ==
    /\ action.kind = "ClearRegistry"
    /\ action.args # <<>>
    /\ dir_registry = {DirB}
    /\ DirA \in canonicalized

(***************************************************************************)
(* C14: in a broadcast over a registry of K >= 1 entries every entry and   *)
(* nothing else is attempted, once, under every interleaving of the        *)
(* targets; a spawn failure on one target cancels no other attempt.        *)
(***************************************************************************)
C14_EveryTargetOnce ==
    (run.args # <<>> /\ ~run.empty) =>
        /\ dir_registry # {}
        /\ \A d \in Dirs : run.attempts[d] <= 1
        /\ \A d \in Dirs \ dir_registry :
             run.attempts[d] = 0 /\ d \notin run.pending \cup run.running
        /\ \A d \in dir_registry : (run.attempts[d] = 0) = (d \in run.pending)
        /\ pc # "exec" => \A d \in dir_registry : run.attempts[d] = 1

C14_Witness ==
    /\ pc = "prompt"
    /\ run.args # <<>>
    /\ dir_registry = {DirA, DirB}
    /\ DirB \notin fs
    /\ run.reports[DirB] = <<"diagnostic">>
    /\ run.attempts[DirA] = 1
    /\ run.attempts[DirB] = 1

(***************************************************************************)
(* C15: in one broadcast a target produces at most one report, either the  *)
(* diagnostic of a failed spawn or the output block of a spawn that        *)
(* succeeded, and only once it has been attempted.                         *)
(***************************************************************************)
C15_AtMostOneReport ==
    \A d \in Dirs :
        /\ run.reports[d] \in {<<>>, <<"diagnostic">>, <<"block">>}
        /\ Len(run.reports[d]) <= run.attempts[d]

C15_Witness ==
    /\ run.pending = {}
    /\ run.running = {}
    /\ run.reports[DirA] = <<"block">>
    /\ run.reports[DirB] = <<"diagnostic">>

(***************************************************************************)
(* C16: while a target of a broadcast has not ended, no line is read or    *)
(* interpreted and run_executable does not return.                         *)
(***************************************************************************)
C16_JoinAll ==
    [][ (run.pending \cup run.running # {})
          => /\ pc = "exec"
             /\ pc' = "exec"
             /\ line' = line
             /\ action' = action
             /\ buffer' = buffer
             /\ parts' = parts ]_vars

C16_Witness ==
    /\ pc = "prompt"
    /\ action.kind = "Execute"
    /\ Cardinality(dir_registry) = 2
    /\ \A d \in dir_registry : run.attempts[d] = 1
    /\ \E d \in dir_registry : run.reports[d] = <<"block">>

(***************************************************************************)
(* The quoting rules of the specification: outside quotes a backslash      *)
(* escapes the next byte, " opens a double-quoted region and ' a           *)
(* single-quoted one; in a double-quoted region a backslash escapes the    *)
(* next byte and " closes; in a single-quoted region only ' closes.        *)
(* QuoteRegion is the region the end of the input lies in.                 *)
(***************************************************************************)
RECURSIVE QuoteScan(_, _, _)
QuoteScan(l, i, region) ==
    IF i > Len(l) THEN region
    ELSE IF region = "plain" THEN
        IF l[i] = BS THEN QuoteScan(l, i + 2, "plain")
        ELSE IF l[i] = DQ THEN QuoteScan(l, i + 1, "double")
        ELSE IF l[i] = SQ THEN QuoteScan(l, i + 1, "single")
        ELSE QuoteScan(l, i + 1, "plain")
    ELSE IF region = "double" THEN
        IF l[i] = BS THEN QuoteScan(l, i + 2, "double")
        ELSE IF l[i] = DQ THEN QuoteScan(l, i + 1, "plain")
        ELSE QuoteScan(l, i + 1, "double")
    ELSE IF l[i] = SQ THEN QuoteScan(l, i + 1, "plain")
    ELSE QuoteScan(l, i + 1, "single")

QuoteRegion(l) == QuoteScan(l, 1, "plain")

\* The raw lines ls form one complete logical line of the specification:
\* every line but the last ends in an unescaped backslash, the last does not.
CompleteLogicalLine(ls) ==
    /\ ls # <<>>
    /\ \A k \in 1..(Len(ls) - 1) : EndsUnescaped(ls[k])
    /\ ~EndsUnescaped(ls[Len(ls)])

(***************************************************************************)
(* C17: a logical line that ends inside an open quote resolves to Loop and *)
(* to no other Action, the session goes on, and the buffer is empty        *)
(* afterwards: the whole logical line is discarded.                        *)
(***************************************************************************)
C17_UnterminatedQuoteLoops ==
    (CompleteLogicalLine(parts) /\ QuoteRegion(JoinContinued(parts)) # "plain")
        => (action.kind = "Loop" /\ buffer = <<>> /\ pc # "panic")

(***************************************************************************)
(* C18: expand_line returns the unterminated-quote error of the kind of    *)
(* the region the end of its input lies in, returns a token list when that *)
(* region is none, and fails in no other way.                              *)
(***************************************************************************)
C18_OnlyUnterminatedQuoteFails ==
    lexed =>
        /\ ~expand_line(full, env).panic
        /\ expand_line(full, env).err =
             ( CASE QuoteRegion(full) = "double" -> "Unterminated double quote"
                 [] QuoteRegion(full) = "single" -> "Unterminated single quote"
                 [] OTHER -> "" )

(***************************************************************************)
(* C19: tokenizing is idempotent on its own output.  For a line whose      *)
(* tokens are each one terminated double-quoted region, one terminated     *)
(* single-quoted region or a run of bytes without quote or backslash, the  *)
(* tokens joined by single spaces tokenize to the same tokens.             *)
(***************************************************************************)
WellFormedToken(t) ==
    \/ /\ Len(t) >= 2
       /\ t[1] = DQ
       /\ double_quoted(t, 2) = Len(t) + 1
    \/ /\ Len(t) >= 2
       /\ t[1] = SQ
       /\ single_quoted(t, 2) = Len(t) + 1
    \/ \A k \in 1..Len(t) : t[k] \notin {DQ, SQ, BS}

WellFormedLine(l) ==
    /\ raw_tokens(l).err = ""
    /\ \A k \in 1..Len(raw_tokens(l).toks) : WellFormedToken(raw_tokens(l).toks[k])

C20_BufferOnlyWhilePending ==
    /\ buffer # <<>> => (EndsUnescaped(line) /\ action.kind = "Buffer")
    /\ (parts # <<>> /\ ~EndsUnescaped(line)) => buffer = <<>>

(***************************************************************************)
(* C21: the registry seen between two input lines changes only when the    *)
(* Action applied is Register, Unregister, ClearRegistry or RegisterFile:  *)
(* a line applied at the prompt with any other Action leaves it as it was, *)
(* and a broadcast returns with the registry it was called with.           *)
(***************************************************************************)
RegistryActions == {"Register", "Unregister", "ClearRegistry", "RegisterFile"}

C21_OnlyRegistryActionsMutate ==
    [][ /\ (pc = "prompt" /\ pc' = "prompt" /\ action'.kind \notin RegistryActions)
            => dir_registry' = dir_registry
        /\ (pc = "prompt" /\ pc' = "exec") => run'.before = dir_registry
        /\ (pc = "exec" /\ pc' = "prompt") => dir_registry' = run.before ]_vars

C21_Witness ==
    /\ pc = "prompt"
    /\ action.kind = "Execute"
    /\ run.args # <<>>
    /\ Cardinality(run.before) = 2
    /\ dir_registry = run.before
    /\ \E d \in Dirs : run.reports[d] = <<"diagnostic">>

RECURSIVE Separators(_, _, _)
Separators(l, i, region) ==
    IF i > Len(l) THEN {}
    ELSE IF region = "plain" THEN
        IF l[i] = BS THEN Separators(l, i + 2, "plain")
        ELSE IF l[i] = DQ THEN Separators(l, i + 1, "double")
        ELSE IF l[i] = SQ THEN Separators(l, i + 1, "single")
        ELSE IF IsBlank(l[i]) THEN {i} \cup Separators(l, i + 1, "plain")
        ELSE Separators(l, i + 1, "plain")
    ELSE IF region = "double" THEN
        IF l[i] = BS THEN Separators(l, i + 2, "double")
        ELSE IF l[i] = DQ THEN Separators(l, i + 1, "plain")
        ELSE Separators(l, i + 1, "double")
    ELSE IF l[i] = SQ THEN Separators(l, i + 1, "plain")
    ELSE Separators(l, i + 1, "single")

\* The maximal runs of positions of l that hold no separator of seps.
TokenRuns(l, seps) ==
    { <<a, b>> \in (1..Len(l)) \X (1..Len(l)) :
        /\ a <= b
        /\ \A k \in a..b : k \notin seps
        /\ a = 1 \/ (a - 1) \in seps
        /\ b = Len(l) \/ (b + 1) \in seps }

SlicesAreTokenRuns(l, r, runs) ==
    /\ r.err = ""
    /\ { r.slices[k] : k \in 1..Len(r.slices) } = runs
    /\ Len(r.slices) = Cardinality(runs)
    /\ \A k \in 1..Len(r.slices) : ~IsBlank(l[r.slices[k][1]])
    /\ \A k \in 1..(Len(r.slices) - 1) : r.slices[k][2] < r.slices[k + 1][1]
    /\ \A k \in 1..Len(l) :
         (\A j \in 1..Len(r.slices) : k < r.slices[j][1] \/ k > r.slices[j][2])
            => IsBlank(l[k])
    /\ raw_tokens(l).toks =
         [k \in 1..Len(r.slices) |-> SubSeq(l, r.slices[k][1], r.slices[k][2])]

C23_RawTokensAreSlices ==
    (lexed /\ QuoteRegion(full) = "plain")
        => SlicesAreTokenRuns(full, raw_slices(full, 1, <<>>),
                              TokenRuns(full, Separators(full, 1, "plain")))

C23_Witness ==
    /\ lexed
    /\ full = <<BS, SP, SP, "X">>
    /\ raw_tokens(full).toks = << <<BS, SP>>, <<"X">> >>
    /\ argv = << <<SP>>, <<"X">> >>

(***************************************************************************)
(* C24: in the expansion of a token that does not start with ', every      *)
(* $NAME is replaced by the value of NAME when it is set and left as it is *)
(* when it is not, and the text after NAME is copied unchanged.  Stated    *)
(* for the tokens that hold no backslash and no tilde, where $NAME is the  *)
(* only thing to expand.                                                   *)
(***************************************************************************)
\* The end of the longest run of name bytes of t from position i on.
RECURSIVE NameEnd(_, _)
NameEnd(t, i) == IF i <= Len(t) /\ t[i] \in NameChars THEN NameEnd(t, i + 1) ELSE i

ValueOrLiteral(e, name) == IF name \in DOMAIN e THEN e[name] ELSE <<DOLLAR>> \o name

\* t from position i on with every $NAME replaced and every other byte copied.
RECURSIVE DollarExpanded(_, _, _)
DollarExpanded(t, i, e) ==
    IF i > Len(t) THEN <<>>
    ELSE IF t[i] = DOLLAR
        THEN ValueOrLiteral(e, SubSeq(t, i + 1, NameEnd(t, i + 1) - 1))
                \o DollarExpanded(t, NameEnd(t, i + 1), e)
    ELSE <<t[i]>> \o DollarExpanded(t, i + 1, e)

OnlyDollarToExpand(t) ==
    /\ t # <<>>
    /\ t[1] # SQ
    /\ \E k \in 1..Len(t) : t[k] = DOLLAR
    /\ \A k \in 1..Len(t) : t[k] \notin {BS, TILDE}

C24_DollarNameExpanded ==
    (lexed /\ raw_tokens(full).err = "")
        => \A k \in 1..Len(raw_tokens(full).toks) :
              OnlyDollarToExpand(raw_tokens(full).toks[k])
                 => /\ ~expand_var(raw_tokens(full).toks[k], env).panic
                    /\ expand_var(raw_tokens(full).toks[k], env).out
                         = DollarExpanded(raw_tokens(full).toks[k], 1, env)

(***************************************************************************)
(* C25: a token whose raw slice starts with ' is returned by the expansion *)
(* byte for byte as the raw slice, quotes included.                        *)
(***************************************************************************)
C25_SingleQuotedVerbatim ==
    (lexed /\ raw_tokens(full).err = "")
        => \A k \in 1..Len(raw_tokens(full).toks) :
              raw_tokens(full).toks[k][1] = SQ
                 => /\ expand_var(raw_tokens(full).toks[k], env)
                         = [panic |-> FALSE, out |-> raw_tokens(full).toks[k]]
                    /\ pc # "panic" => argv[k] = raw_tokens(full).toks[k]

C25_Witness ==
    /\ lexed
    /\ pc = "done"
    /\ T_X \in DOMAIN env
    /\ full = <<SQ, DOLLAR, "X", SQ>>
    /\ argv = <<full>>

(***************************************************************************)
(* C26: a backslash outside quotes escapes the next byte.  On a line that  *)
(* holds backslashes and, outside the escaped bytes, no quote, $ or ~,     *)
(* an escaped blank ends no token, an escaped quote opens no region, and   *)
(* every token expands to itself with each pair \X replaced by the byte X. *)
(***************************************************************************)
\* From position i on, every backslash of t has a byte after it and every
\* quote, $ and ~ is the byte after a backslash.
RECURSIVE EscapesOnly(_, _)
EscapesOnly(t, i) ==
    IF i > Len(t) THEN TRUE
    ELSE IF t[i] = BS THEN i + 1 <= Len(t) /\ EscapesOnly(t, i + 2)
    ELSE IF t[i] \in {DQ, SQ, DOLLAR, TILDE} THEN FALSE
    ELSE EscapesOnly(t, i + 1)

\* t from position i on with every pair \X replaced by X.
RECURSIVE Unescaped(_, _)
Unescaped(t, i) ==
    IF i > Len(t) THEN <<>>
    ELSE IF t[i] = BS THEN <<t[i + 1]>> \o Unescaped(t, i + 2)
    ELSE <<t[i]>> \o Unescaped(t, i + 1)

C26_BackslashEscapesNextByte ==
    (lexed /\ EscapesOnly(full, 1) /\ \E k \in 1..Len(full) : full[k] = BS)
        => /\ raw_tokens(full).err = ""
           /\ \A k \in 1..Len(raw_tokens(full).toks) :
                /\ EscapesOnly(raw_tokens(full).toks[k], 1)
                /\ expand_var(raw_tokens(full).toks[k], env)
                     = [panic |-> FALSE, out |-> Unescaped(raw_tokens(full).toks[k], 1)]

(***************************************************************************)
(* C27: handle_line never returns Execute with an empty argv: the argv of  *)
(* Execute is the token list of the line, which is not empty, and the      *)
(* assertion at the start of run_executable holds.                         *)
(***************************************************************************)
C27_ExecuteArgvNotEmpty ==
    /\ action.kind = "Execute" => (action.args # <<>> /\ action.args = argv)
    /\ pc = "exec" => run.args # <<>>
    /\ pc = "panic" => action.kind # "Execute"

C27_Witness ==
    /\ pc = "exec"
    /\ action.kind = "Execute"
    /\ Len(parts) = 2
    /\ trim_is_empty(parts[2])
    /\ run.args = argv
    /\ argv # <<>>

(***************************************************************************)
(* C28: for a target that was spawned, the output block is printed if and  *)
(* only if the captured standard output is not empty.  As stated it fails  *)
(* for an output of white space only, which is not empty and is not        *)
(* printed.  Amended: the block is printed if and only if the captured     *)
(* output holds a byte that is not white space.                            *)
(***************************************************************************)
C28_Original ==
    \A d \in Dirs :
        Len(run.stdout[d]) = 1 =>
            ((run.reports[d] = <<"block">>) <=> (run.stdout[d][1] # <<>>))

C28_BlockIffNotBlank ==
    \A d \in Dirs :
        /\ Len(run.stdout[d]) <= 1
        /\ Len(run.stdout[d]) = 1 =>
             ( (run.reports[d] = <<"block">>)
                 <=> (\E i \in 1..Len(run.stdout[d][1]) :
                         run.stdout[d][1][i] \notin {SP, TAB, NL}) )

C28_Witness ==
    /\ pc = "prompt"
    /\ \E d \in Dirs : run.stdout[d] = << <<NL>> >> /\ run.reports[d] = <<>>
    /\ \E d \in Dirs : run.stdout[d] = << <<"o", NL>> >> /\ run.reports[d] = <<"block">>

(***************************************************************************)
(* C29: environment mutations are visible to later expansions.  Once the   *)
(* line var X v has been applied X has the value v, once the line          *)
(* var -d X has been applied X is not set, and the line $X expands to the  *)
(* value X has at that time, or stays $X when X is not set.                *)
(***************************************************************************)
C29_EnvVisibleToLaterLines ==
    /\ parts = << Words(<<W_var, T_X, T_v>>) >>
         => (pc # "panic" /\ T_X \in DOMAIN env /\ env[T_X] = T_v)
    /\ parts = << Words(<<W_var, F_d, T_X>>) >>
         => (pc # "panic" /\ T_X \notin DOMAIN env)
    /\ parts = << <<DOLLAR, "X">> >>
         => argv = << IF T_X \in DOMAIN env THEN env[T_X] ELSE <<DOLLAR, "X">> >>

(***************************************************************************)
(* C30: expansion never splits, merges, drops or reorders tokens.  The     *)
(* list expand_line returns has one element for each raw token, in order,  *)
(* the expansion of that token; a substituted value or home directory is   *)
(* put in as it is, blanks, quotes, $ and ~ included, and is not scanned   *)
(* again.                                                                  *)
(***************************************************************************)
C30_ExpansionKeepsTokens ==
    (lexed /\ raw_tokens(full).err = "" /\ pc # "panic")
        => /\ Len(argv) = Len(raw_tokens(full).toks)
           /\ \A k \in 1..Len(argv) :
                /\ argv[k] = expand_var(raw_tokens(full).toks[k], env).out
                /\ raw_tokens(full).toks[k] = <<DOLLAR, "X">>
                     => argv[k] = ValueOrLiteral(env, T_X)
                /\ raw_tokens(full).toks[k] = <<TILDE>> => argv[k] = get_home_dir

C30_Witness ==
    /\ lexed
    /\ pc = "done"
    /\ full = <<DOLLAR, "X", SP, TILDE>>
    /\ T_X \in DOMAIN env
    /\ \E i \in 1..Len(env[T_X]) : env[T_X][i] = SP
    /\ argv = <<env[T_X], get_home_dir>>

(***************************************************************************)
(* C31: a registered directory that no longer exists stays in the registry *)
(* until a clear-register line: an unregister of its path fails at         *)
(* canonicalization and removes nothing, and a broadcast started meanwhile *)
(* has it as a target.                                                     *)
(***************************************************************************)
C31_StaleEntryStays ==
    [][ \A d \in dir_registry \ fs :
          /\ d \notin dir_registry' => (pc = "prompt" /\ action'.kind = "ClearRegistry")
          /\ (LineApplied /\ action'.kind = "Unregister") =>
                /\ \A k \in 1..Len(results') :
                     resolve(results'[k].path, cwd) = d => ~results'[k].ok
                /\ (\A k \in 1..Len(results') : resolve(results'[k].path, cwd) \notin fs)
                     => dir_registry' = dir_registry
          /\ (pc = "prompt" /\ pc' = "exec") => d \in run'.pending ]_vars

C31_Witness ==
    /\ action.kind = "Unregister"
    /\ DirB \in dir_registry
    /\ DirB \notin fs
    /\ \E k \in 1..Len(results) :
         resolve(results[k].path, cwd) = DirB /\ ~results[k].ok

=============================================================================
